---- MODULE Spec2Model ----
(***************************************************************************)
(* A model of the project runner of mlflow/projects:                       *)
(*   - LocalSubmittedRun (submitted_run.py): the handle over an OS process *)
(*   - LocalBackend.run (backend/local.py) and the run environments        *)
(*   - load_project, Project, EntryPoint, Parameter (_project_spec.py)     *)
(* Each part has its own specification over the shared variables: Spec and *)
(* SpecFair (the handle), SpecParams (compute_parameters), SpecLoad        *)
(* (load_project), SpecEntry (get_entry_point, compute_command), SpecRun   *)
(* (run), SpecSelect (run's choice of environment for any Project) and    *)
(* SpecPrepare (DockerRunEnvironment.prepare_environment).                *)
(***************************************************************************)
EXTENDS Integers, Sequences, FiniteSets, TLC

VARIABLES
    \* ---- LocalSubmittedRun over subprocess.Popen ----
    proc,        \* OS state of the child: "running", "zombie" (exited, not reaped), "reaped"
    exitCode,    \* the code the child exited with (None while it runs)
    killPending, \* a SIGKILL has been sent to the running child and is not yet acted on
    isLeader,    \* command_proc.pid == os.getpgid(command_proc.pid)
    returncode,  \* Popen.returncode: None until poll()/wait() has reaped the child
    pc,          \* where the (single) caller is: "idle", "cancel_signal", "cancel_wait", "wait"
    signals,     \* the signals cancel() has sent, in order: "group" or "child"
    osErrors,    \* number of OSErrors swallowed by cancel()
    lastStatus,  \* what the last get_status() returned (None before the first)
    lastWait,    \* what the last wait() returned (None before the first)
    lastCancel,  \* how the last cancel() ended: None, "noop", "killed"
    \* ---- EntryPoint.compute_parameters ----
    epParams,    \* EntryPoint.parameters in declaration order: [name, type, default]
    storageDirs, \* the indexes i whose param_<i> directory exists under storage_dir
    cpUser,      \* user_parameters as passed to the last compute_parameters
    cpUserAfter, \* that same mapping object when the call has ended
    cpStorage,   \* storage_dir as passed to the last compute_parameters
    cpResult,    \* how the last compute_parameters ended, and what it returned
    \* ---- load_project ----
    ldPath,      \* what project_path is: "dir", "dir_no_descriptor", "file", "missing"
    ldYaml,      \* the descriptor's content (yaml_obj)
    ldFiles,     \* which dependency files exist: [conda_env, default]
    ldResult,    \* how the last load_project ended, and the Project it returned
    \* ---- LocalBackend.run ----
    rnCfg,       \* the arguments of run: backend_config, entry_point, params, platform
    rnPc,        \* the statement run is at
    rnProject,   \* project (line 49)
    rnEnvName,   \* env_name
    rnEnvObj,    \* run_environment: "none", or "instance" once line 79 has run
    rnTag,       \* the MLFLOW_PROJECT_ENV tag set on the run (None: not set)
    rnCalls,     \* the lifecycle methods called on run_environment, in order
    rnCommand,   \* get_entry_point_command's result once line 93 has joined it
    rnSpawned,   \* the processes spawned so far: [cwd, env, new_session]
    rnHandle,    \* whether run has returned a LocalSubmittedRun
    rnError,     \* the exception run has raised (None: none)
    \* ---- Project.get_entry_point and EntryPoint.compute_command ----
    geEntryPoints, \* Project._entry_points: name -> EntryPoint
    geName,      \* the entry_point asked for
    geResult,    \* how the last get_entry_point ended, and the EntryPoint it returned
    ccUser,      \* user_parameters as passed to compute_command
    ccStorage,   \* storage_dir as passed to compute_command
    ccDirs,      \* the indexes i whose param_<i> directory exists under that storage_dir
    ccResult,    \* how the last compute_command ended, and the string it returned
    \* ---- DockerRunEnvironment.prepare_environment ----
    peProject,   \* what the call reads: the project's name and the git commit of work_dir
    pePc,        \* the statement prepare_environment is at
    peTmp,       \* the entries of root_temp_directory()
    peImageUri,  \* image_uri (line 71), a character string
    pePending,   \* the exception raised inside the try block of lines 127-135
    peLog,       \* the messages logged, in order
    peTags,      \* the run tags set (lines 96-97)
    peImage,     \* whether self._image is set (line 98)
    peError      \* the exception prepare_environment has raised (None: none)

handleVars == <<proc, exitCode, killPending, isLeader, returncode, pc, signals,
                osErrors, lastStatus, lastWait, lastCancel>>

paramVars == <<epParams, storageDirs, cpUser, cpUserAfter, cpStorage, cpResult>>

loadVars == <<ldPath, ldYaml, ldFiles, ldResult>>

runVars == <<rnCfg, rnPc, rnProject, rnEnvName, rnEnvObj, rnTag, rnCalls, rnCommand,
             rnSpawned, rnHandle, rnError>>

entryVars == <<geEntryPoints, geName, geResult, ccUser, ccStorage, ccDirs, ccResult>>

prepareVars == <<peProject, pePc, peTmp, peImageUri, pePending, peLog, peTags, peImage,
                 peError>>

vars == <<handleVars, paramVars, loadVars, runVars, entryVars, prepareVars>>

\* What the actions of one part leave alone.
notHandle == <<paramVars, loadVars, runVars, entryVars, prepareVars>>
notParam == <<handleVars, loadVars, runVars, entryVars, prepareVars>>
notLoad == <<handleVars, paramVars, runVars, entryVars, prepareVars>>
notRun == <<handleVars, paramVars, entryVars, prepareVars>>
notEntry == <<handleVars, paramVars, loadVars, runVars, prepareVars>>
notPrepare == <<handleVars, paramVars, loadVars, runVars, entryVars>>

\* Python's None, and a present value: optional values are sequences of length <= 1.
None == <<>>
Some(x) == <<x>>

\* ------------------------------------------------------------------ bounds
\* The child exits by itself with a code in 0..MaxExitCode.
MaxExitCode == 2

\* signal.SIGKILL: a child killed by it has returncode -SIGKILL.
SIGKILL == 9

ExitCodes == 0..MaxExitCode

\* ------------------------------------------------- subprocess.Popen (stdlib)
\* Popen.poll(): the returncode already stored, else the exit code of a child that
\* has exited (which reaps it), else None.
PollCode == IF returncode # None THEN returncode
            ELSE IF proc = "zombie" THEN exitCode ELSE None

PollProc == IF returncode = None /\ proc = "zombie" THEN "reaped" ELSE proc

\* ------------------------------------------------------- LocalSubmittedRun
\* _get_status's mapping of poll()'s result, with every exit reported as FINISHED.
StatusOfAlwaysFinished(exit_code) ==
    IF exit_code = None THEN "RUNNING" ELSE "FINISHED"

\* _get_status's mapping of poll()'s result.
StatusOf(exit_code) ==
    IF exit_code = None THEN "RUNNING"
    ELSE IF exit_code = Some(0) THEN "FINISHED"
    ELSE "FAILED"

\* wait()'s result from Popen.wait()'s, inverted.
WaitResultInverted(code) == code # Some(0)

\* wait()'s result: command_proc.wait() == 0.
WaitResult(code) == code = Some(0)

\* cancel()'s liveness test left out: the child is signalled whatever its state.
CancelSeesRunningAlways == TRUE

\* cancel()'s liveness test, taking the stored returncode instead of polling.
CancelSeesRunningStale == returncode = None

\* cancel()'s liveness test: command_proc.poll() is None.
CancelSeesRunning == PollCode = None

\* cancel()'s choice of target with the process-group test left out.
SignalTargetAlwaysGroup(leader) == "group"

\* cancel()'s choice of target: os.killpg(pid) when pid == os.getpgid(pid), else
\* command_proc.kill().
SignalTarget(leader) == IF leader THEN "group" ELSE "child"

\* cancel() after its try block, were an OSError not caught.
AfterSignalPropagating(raised) == IF raised THEN "idle" ELSE "cancel_wait"

\* cancel() after its try block: "except OSError" only logs, so command_proc.wait()
\* follows whether or not the signal step raised.
AfterSignal(raised) == "cancel_wait"

InitHandle ==
    /\ proc = "running"
    /\ exitCode = None
    /\ killPending = FALSE
    /\ isLeader \in BOOLEAN
    /\ returncode = None
    /\ pc = "idle"
    /\ signals = <<>>
    /\ osErrors = 0
    /\ lastStatus = None
    /\ lastWait = None
    /\ lastCancel = None

\* The child exits: by itself with one of ExitCodes, or killed by a pending SIGKILL.
ProcExit ==
    /\ proc = "running"
    /\ proc' = "zombie"
    /\ \/ /\ killPending
          /\ exitCode' = Some(-SIGKILL)
       \/ /\ ~killPending
          /\ \E c \in ExitCodes : exitCode' = Some(c)
    /\ killPending' = FALSE
    /\ UNCHANGED <<isLeader, returncode, pc, signals, osErrors, lastStatus,
                   lastWait, lastCancel>>
    /\ UNCHANGED notHandle

\* get_status(): one poll(), never blocks.
GetStatus ==
    /\ pc = "idle"
    /\ returncode' = PollCode
    /\ proc' = PollProc
    /\ lastStatus' = Some(StatusOf(PollCode))
    /\ UNCHANGED <<exitCode, killPending, isLeader, pc, signals, osErrors,
                   lastWait, lastCancel>>
    /\ UNCHANGED notHandle

\* wait() is called: the caller blocks in Popen.wait().
WaitCall ==
    /\ pc = "idle"
    /\ pc' = "wait"
    /\ UNCHANGED <<proc, exitCode, killPending, isLeader, returncode, signals,
                   osErrors, lastStatus, lastWait, lastCancel>>
    /\ UNCHANGED notHandle

\* Popen.wait() returns once the child has exited (or at once when returncode is set).
WaitReturn ==
    /\ pc = "wait"
    /\ PollCode # None
    /\ returncode' = PollCode
    /\ proc' = PollProc
    /\ lastWait' = Some(WaitResult(PollCode))
    /\ pc' = "idle"
    /\ UNCHANGED <<exitCode, killPending, isLeader, signals, osErrors, lastStatus,
                   lastCancel>>
    /\ UNCHANGED notHandle

\* cancel(), first step: poll(); nothing more when the child has exited.
CancelCall ==
    /\ pc = "idle"
    /\ returncode' = PollCode
    /\ proc' = PollProc
    /\ IF CancelSeesRunning
          THEN pc' = "cancel_signal" /\ UNCHANGED lastCancel
          ELSE pc' = "idle" /\ lastCancel' = Some("noop")
    /\ UNCHANGED <<exitCode, killPending, isLeader, signals, osErrors, lastStatus,
                   lastWait>>
    /\ UNCHANGED notHandle

\* cancel(), the try block: os.getpgid, then os.killpg or command_proc.kill(). The
\* child may have exited since the poll: the OS then either still answers for the
\* zombie (the signal has no effect) or raises OSError, which is swallowed.
CancelSignal ==
    /\ pc = "cancel_signal"
    /\ \/ /\ signals' = Append(signals, SignalTarget(isLeader))
          /\ killPending' = (proc = "running")
          /\ pc' = AfterSignal(FALSE)
          /\ UNCHANGED osErrors
       \/ /\ proc = "zombie"
          /\ osErrors' = osErrors + 1
          /\ pc' = AfterSignal(TRUE)
          /\ UNCHANGED <<signals, killPending>>
    /\ UNCHANGED <<proc, exitCode, isLeader, returncode, lastStatus, lastWait,
                   lastCancel>>
    /\ UNCHANGED notHandle

\* cancel(), last step: command_proc.wait() reaps the child.
CancelWait ==
    /\ pc = "cancel_wait"
    /\ PollCode # None
    /\ returncode' = PollCode
    /\ proc' = PollProc
    /\ pc' = "idle"
    /\ lastCancel' = Some("killed")
    /\ UNCHANGED <<exitCode, killPending, isLeader, signals, osErrors, lastStatus,
                   lastWait>>
    /\ UNCHANGED notHandle

\* ===================================================== _project_spec.py
\* Strings are sequences of one-character strings, so that escaping is computed.
\* A YAML or user value is a string or an integer.
StrVal(chars) == [t |-> "str", s |-> chars, n |-> 0]
IntVal(k) == [t |-> "int", s |-> <<>>, n |-> k]

DigitChars == <<"0", "1", "2", "3", "4", "5", "6", "7", "8", "9">>

\* str(value).
PyStr(v) == IF v.t = "str" THEN v.s ELSE <<DigitChars[v.n + 1]>>

\* The characters shlex.quote leaves alone: [\w@%+=:,./-].
SafeChars ==
    {"a", "b", "e", "h", "i", "m", "p", "s", "t", "x", "y", "R",
     "@", "%", "+", "=", ":", ",", ".", "/", "-", "_"} \cup {DigitChars[i] : i \in 1..10}

RECURSIVE EscapeQuotes(_)
\* s.replace("'", "'\"'\"'").
EscapeQuotes(s) ==
    IF s = <<>> THEN <<>>
    ELSE (IF Head(s) = "'" THEN <<"'", "\"", "'", "\"", "'">> ELSE <<Head(s)>>)
             \o EscapeQuotes(Tail(s))

\* shlex.quote(s).
Quote(s) ==
    IF s = <<>> THEN <<"'", "'">>
    ELSE IF \A i \in DOMAIN s : s[i] \in SafeChars THEN s
    ELSE <<"'">> \o EscapeQuotes(s) \o <<"'">>

\* The empty dict.
EmptyMap == [k \in {} |-> <<>>]

\* _sanitize_param_dict with the escaping applied twice.
SanitizeParamDictTwice(param_dict) ==
    [k \in DOMAIN param_dict |-> Quote(Quote(PyStr(param_dict[k])))]

\* _sanitize_param_dict: {str(key): quote(str(value))}; the keys are strings.
SanitizeParamDict(param_dict) ==
    [k \in DOMAIN param_dict |-> Quote(PyStr(param_dict[k]))]

\* ------------------------------------------------ the values of the model
sAB == <<"a", "b">>
sSpace == <<"a", " ", "b">>
sQuote == <<"'">>
sUri == <<"s", ":", "a">>

\* The local paths that exist on the host.
ExistingLocal == {sAB}

\* mlflow.data.is_uri: the value has a scheme.
IsUri(v) == v.t = "str" /\ \E i \in DOMAIN v.s : i > 1 /\ v.s[i] = ":"

\* get_local_path_or_none: the value itself when it has no scheme, else None.
LocalPathOrNone(v) == IF IsUri(v) THEN None ELSE Some(v.s)

\* os.path.abspath, the working directory being "/".
Abspath(path) == IF path # <<>> /\ Head(path) = "/" THEN path ELSE <<"/">> \o path

\* What _download_artifact_from_uri returns for output_path param_<pos>.
DownloadPath(pos) == <<"p", DigitChars[pos + 1]>>

\* ---------------------------------------------------------------- Parameter
\* The outcome of compute_value: an error or a value, and the directories that
\* exist afterwards.
Outcome(err, value, dirs, mk) == [err |-> err, value |-> value, dirs |-> dirs, mk |-> mk]

\* Parameter._compute_uri_value.
ComputeUriValue(user_param_value, dirs) ==
    IF ~IsUri(user_param_value)
        THEN Outcome(Some("expected_uri"), user_param_value, dirs, 0)
        ELSE Outcome(None, user_param_value, dirs, 0)

\* Parameter._compute_path_value; os.mkdir raises when the directory exists.
ComputePathValue(user_param_value, key_position, dirs) ==
    LET local_path == LocalPathOrNone(user_param_value) IN
    IF local_path # None /\ local_path[1] # <<>>
        THEN IF local_path[1] \notin ExistingLocal
                THEN Outcome(Some("no_such_file"), user_param_value, dirs, 0)
                ELSE Outcome(None, StrVal(Abspath(local_path[1])), dirs, 0)
        ELSE IF key_position \in dirs
                THEN Outcome(Some("file_exists"), user_param_value, dirs, 0)
                ELSE Outcome(None, StrVal(DownloadPath(key_position)),
                             dirs \cup {key_position}, 1)

\* Parameter.compute_value.
ComputeValue(type, param_value, storage_dir, key_position, dirs) ==
    IF storage_dir # None /\ type = "path"
        THEN ComputePathValue(param_value, key_position, dirs)
    ELSE IF type = "uri" THEN ComputeUriValue(param_value, dirs)
    ELSE Outcome(None, param_value, dirs, 0)

\* --------------------------------------------------------------- EntryPoint
\* The names of a sequence of parameters.
Names(params) == {params[i].name : i \in DOMAIN params}

RECURSIVE MissingFrom(_, _, _)
\* _validate_parameters' loop from the i-th parameter on: missing_params.
MissingFrom(params, user_parameters, i) ==
    IF i > Len(params) THEN <<>>
    ELSE (IF params[i].name \notin DOMAIN user_parameters /\ params[i].default = None
             THEN <<params[i].name>> ELSE <<>>)
         \o MissingFrom(params, user_parameters, i + 1)

\* _validate_parameters stopping at the first missing parameter.
MissingParamsFirstOnly(params, user_parameters) ==
    LET all == MissingFrom(params, user_parameters, 1)
    IN IF all = <<>> THEN <<>> ELSE <<Head(all)>>

\* _validate_parameters: the names the error lists (none: no error).
MissingParams(params, user_parameters) == MissingFrom(params, user_parameters, 1)

\* The ordinal index with every parameter given position 0.
KeyPositionZero(params, key) == 0

\* parameter_keys.index(key), 0-based.
KeyPosition(params, key) ==
    (CHOOSE i \in DOMAIN params :
        params[i].name = key /\ \A j \in 1..(i - 1) : params[j].name # key) - 1

\* The value compute_parameters resolves for a parameter, the default winning.
ChosenValueDefaultFirst(param, user_parameters) ==
    IF param.default # None THEN param.default[1] ELSE user_parameters[param.name]

\* The value compute_parameters resolves for a parameter: the user's when given.
ChosenValue(param, user_parameters) ==
    IF param.name \in DOMAIN user_parameters
        THEN user_parameters[param.name] ELSE param.default[1]

RECURSIVE ResolveFrom(_, _, _, _, _)
\* compute_parameters' first loop from the i-th declared parameter on; acc holds
\* final_params, the directories that exist, the mkdir count and the first error.
ResolveFrom(params, user_parameters, storage_dir, i, acc) ==
    IF i > Len(params) \/ acc.err # None THEN acc
    ELSE LET param_obj == params[i]
             key_position == KeyPosition(params, param_obj.name)
             value == ChosenValue(param_obj, user_parameters)
             r == ComputeValue(param_obj.type, value, storage_dir, key_position, acc.dirs)
         IN ResolveFrom(params, user_parameters, storage_dir, i + 1,
                [err |-> r.err,
                 final |-> IF r.err = None
                              THEN (param_obj.name :> r.value) @@ acc.final
                              ELSE acc.final,
                 dirs |-> r.dirs,
                 mk |-> acc.mk + r.mk])

\* compute_parameters' second loop: the user's keys that are not in final_params.
ExtraParams(user_parameters, final_params) ==
    [k \in DOMAIN user_parameters \ DOMAIN final_params |-> user_parameters[k]]

\* What compute_parameters gives: status "missing" (with the names), "error" (a
\* resolution failed) or "ok" (with the two mappings), and the directories after it.
Result(status, error, missing, final, extra, before, dirs, mk) ==
    [status |-> status, error |-> error, missing |-> missing, final |-> final,
     extra |-> extra, before |-> before, dirs |-> dirs, mkdirs |-> mk]

\* EntryPoint.compute_parameters(user_parameters, storage_dir).
ComputeParameters(params, user_parameters_arg, storage_dir, dirs) ==
    LET user_parameters ==
            IF user_parameters_arg = None THEN EmptyMap ELSE user_parameters_arg[1]
        missing_params == MissingParams(params, user_parameters)
    IN  IF missing_params # <<>>
            THEN Result("missing", None, missing_params, EmptyMap, EmptyMap, dirs, dirs, 0)
        ELSE LET r == ResolveFrom(params, user_parameters, storage_dir, 1,
                          [err |-> None, final |-> EmptyMap, dirs |-> dirs, mk |-> 0])
             IN  IF r.err # None
                    THEN Result("error", r.err, <<>>, EmptyMap, EmptyMap, dirs, r.dirs, r.mk)
                 ELSE Result("ok", None, <<>>, SanitizeParamDict(r.final),
                          SanitizeParamDict(ExtraParams(user_parameters, r.final)),
                          dirs, r.dirs, r.mk)

\* The caller's mapping after a compute_parameters that consumed the declared keys.
UserParametersAfterPopped(params, user_parameters_arg) ==
    IF user_parameters_arg = None THEN None
    ELSE Some([k \in DOMAIN user_parameters_arg[1] \ Names(params) |->
                  user_parameters_arg[1][k]])

\* The caller's mapping after compute_parameters: it is only read.
UserParametersAfter(params, user_parameters_arg) == user_parameters_arg

\* ------------------------------------------------ inputs of compute_parameters
\* An entry point declares at most MaxParams parameters.
MaxParams == 2

ParamPool == <<"alpha", "beta", "gamma", "delta">>
DeclaredPool == {ParamPool[i] : i \in 1..MaxParams}
UserKeys == DeclaredPool \cup {"extra"}

UserValues == {StrVal(sAB), StrVal(sUri), StrVal(sQuote)}
Defaults == {None, Some(StrVal(sSpace)), Some(IntVal(5))}

\* Parameter.__init__: a parameter has a type and an optional default.
ParamSpecs ==
    {ps \in [name : DeclaredPool, type : {"string", "path", "uri"}, default : Defaults] :
        ps.default = Some(IntVal(5)) => ps.type = "string"}

\* The entry points: k <= MaxParams parameters, declared in the pool's order.
EntryPointParams ==
    UNION {{ps \in [1..k -> ParamSpecs] : \A i \in 1..k : ps[i].name = ParamPool[i]} :
              k \in 0..MaxParams}

UserParamChoices ==
    {None} \cup {Some(m) : m \in UNION {[ks -> UserValues] : ks \in SUBSET UserKeys}}

StorageChoices == {None, Some("store")}

IdleResult == Result("idle", None, <<>>, EmptyMap, EmptyMap, {}, {}, 0)

IdleParams ==
    /\ epParams = <<>>
    /\ storageDirs = {}
    /\ cpUser = None
    /\ cpUserAfter = None
    /\ cpStorage = None
    /\ cpResult = IdleResult

\* An entry point, and the arguments its compute_parameters is (repeatedly) called
\* with; the storage directory starts empty.
InitParams ==
    /\ epParams \in EntryPointParams
    /\ storageDirs = {}
    /\ cpUser \in UserParamChoices
    /\ cpUserAfter = cpUser
    /\ cpStorage \in StorageChoices
    /\ cpResult = IdleResult

\* One call of compute_parameters(cpUser, cpStorage) on the entry point.
ComputeParametersCall ==
    LET r == ComputeParameters(epParams, cpUser, cpStorage, storageDirs) IN
    /\ cpUserAfter' = UserParametersAfter(epParams, cpUser)
    /\ cpResult' = r
    /\ storageDirs' = r.dirs
    /\ UNCHANGED <<epParams, cpUser, cpStorage>>
    /\ UNCHANGED notParam

NextParams == ComputeParametersCall

\* ============================================================= load_project
\* A value of a container section, as YAML gives it: a string, an integer or a list.
YStr(chars) == [t |-> "str", s |-> chars, n |-> 0, items |-> <<>>]
YInt(k) == [t |-> "int", s |-> <<>>, n |-> k, items |-> <<>>]
YList(items) == [t |-> "list", s |-> <<>>, n |-> 0, items |-> items]

\* Python's truth value of an optional YAML value (dict.get's result).
YTruthy(opt) ==
    /\ opt # None
    /\ CASE opt[1].t = "str" -> opt[1].s # <<>>
         [] opt[1].t = "int" -> opt[1].n # 0
         [] OTHER -> opt[1].items # <<>>

\* A docker_env / singularity_env section: a dict with these optional keys.
Section(image, volumes, environment) ==
    [image |-> image, volumes |-> volumes, environment |-> environment]

\* Python's truth value of an optional section: a dict with at least one key.
SectionTruthy(opt) ==
    /\ opt # None
    /\ (opt[1].image # None \/ opt[1].volumes # None \/ opt[1].environment # None)

\* isinstance(v, list) and all(isinstance(i, str) for i in v).
IsListOfStr(v) == v.t = "list" /\ \A i \in DOMAIN v.items : v.items[i].t = "str"

\* The environment test with every element required to be a string.
EnvironmentShapeOkStrOnly(v) == IsListOfStr(v)

\* isinstance(v, list) and all(isinstance(i, list) or isinstance(i, str) for i in v).
EnvironmentShapeOk(v) ==
    v.t = "list" /\ \A i \in DOMAIN v.items : v.items[i].t \in {"list", "str"}

\* The validation of one container section, lines 56-85: the error, or None.
ValidateContainer(container_env) ==
    IF ~SectionTruthy(container_env) THEN None
    ELSE IF ~YTruthy(container_env[1].image) THEN Some("no_image")
    ELSE IF YTruthy(container_env[1].volumes) /\ ~IsListOfStr(container_env[1].volumes[1])
        THEN Some("bad_volumes")
    ELSE IF YTruthy(container_env[1].environment)
              /\ ~EnvironmentShapeOk(container_env[1].environment[1])
        THEN Some("bad_environment")
    ELSE None

\* The single-environment test with the docker/singularity pair left out.
MultipleEnvsCondaOnly(conda_path, docker_env, singularity_env) ==
    \/ conda_path # None /\ SectionTruthy(docker_env)
    \/ conda_path # None /\ SectionTruthy(singularity_env)

\* Line 89: more than one of conda_env, docker_env, singularity_env is given.
MultipleEnvs(conda_path, docker_env, singularity_env) ==
    \/ conda_path # None /\ SectionTruthy(docker_env)
    \/ conda_path # None /\ SectionTruthy(singularity_env)
    \/ SectionTruthy(docker_env) /\ SectionTruthy(singularity_env)

\* Parameter.__init__: a string is the type; a dict gives type and default.
ParameterInit(name, yaml_obj) ==
    IF yaml_obj.form = "str"
        THEN [name |-> name, type |-> yaml_obj.type[1], default |-> None]
        ELSE [name |-> name,
              type |-> IF yaml_obj.type = None THEN "string" ELSE yaml_obj.type[1],
              default |-> yaml_obj.default]

\* EntryPoint.__init__.
EntryPointInit(name, parameters, command) ==
    [name |-> name,
     parameters |-> [i \in DOMAIN parameters |->
                        ParameterInit(parameters[i].name, parameters[i].yaml)],
     command |-> command]

\* Lines 93-97: the entry points parsed from the descriptor.
ParseEntryPoints(yaml_obj) ==
    [name \in DOMAIN yaml_obj.entry_points |->
        EntryPointInit(name, yaml_obj.entry_points[name].parameters,
                       yaml_obj.entry_points[name].command)]

\* Project.__init__.
Project(conda_env_path, entry_points, docker_env, singularity_env, name) ==
    [conda_env_path |-> conda_env_path, entry_points |-> entry_points,
     docker_env |-> docker_env, singularity_env |-> singularity_env, name |-> name]

\* The descriptor assumed when none is read: yaml_obj = {}.
EmptyYaml ==
    [name |-> None, conda_env |-> None, docker_env |-> None,
     singularity_env |-> None, entry_points |-> EmptyMap]

NoProject == Project(None, EmptyMap, None, None, None)

Loaded(project) == [status |-> "ok", error |-> None, project |-> project]
LoadFailed(kind) == [status |-> "error", error |-> Some(kind), project |-> NoProject]

\* os.path.join(directory, name).
Join(directory, name) == <<directory, name>>

\* load_project from line 50 on, for the descriptor's content yaml_obj.
LoadFrom(yaml_obj, files) ==
    LET docker_env == yaml_obj.docker_env
        singularity_env == yaml_obj.singularity_env
        conda_path == yaml_obj.conda_env
        entry_points == ParseEntryPoints(yaml_obj)
    IN  IF ValidateContainer(docker_env) # None
            THEN LoadFailed(ValidateContainer(docker_env)[1])
        ELSE IF ValidateContainer(singularity_env) # None
            THEN LoadFailed(ValidateContainer(singularity_env)[1])
        ELSE IF MultipleEnvs(conda_path, docker_env, singularity_env)
            THEN LoadFailed("multiple_envs")
        ELSE IF conda_path # None
            THEN IF ~files.conda_env
                    THEN LoadFailed("conda_file_missing")
                    ELSE Loaded(Project(Some(Join("dir", conda_path[1])), entry_points,
                                        docker_env, singularity_env, yaml_obj.name))
        ELSE IF files.default
            THEN Loaded(Project(Some(Join("dir", "conda.yaml")), entry_points,
                                docker_env, singularity_env, yaml_obj.name))
        ELSE Loaded(Project(None, entry_points, docker_env, singularity_env,
                            yaml_obj.name))

\* _find_mlproject: (descriptor path, directory) for a directory holding a file
\* whose lower-cased name is "mlproject" and for a file; None for a directory
\* without such a file; ExecutionException otherwise.
FindMlproject(path) ==
    CASE path = "dir" -> [raised |-> FALSE, value |-> Some(<<Join("dir", "MLproject"), "dir">>)]
      [] path = "dir_no_descriptor" -> [raised |-> FALSE, value |-> None]
      [] path = "file" -> [raised |-> FALSE, value |-> Some(<<Join("dir", "MLproject"), "dir">>)]
      [] OTHER -> [raised |-> TRUE, value |-> None]

\* load_project: line 39 unpacks _find_mlproject's result into two names, which
\* raises TypeError when the result is None; then the descriptor is read.
LoadProject(path, yaml_obj, files) ==
    LET found == FindMlproject(path) IN
    IF found.raised THEN LoadFailed("not_found")
    ELSE IF found.value = None THEN LoadFailed("type_error")
    ELSE LoadFrom(yaml_obj, files)

\* ----------------------------------------------------- inputs of load_project
\* A command template: literal text and {name} placeholders.
Lit(chars) == [k |-> "lit", lit |-> chars, ph |-> ""]
Ph(name) == [k |-> "ph", lit |-> <<>>, ph |-> name]

\* A parameter as the descriptor writes it: a type name, or a dict.
YamlParamStr(name, type) ==
    [name |-> name, yaml |-> [form |-> "str", type |-> Some(type), default |-> None]]
YamlParamDict(name, type, default) ==
    [name |-> name, yaml |-> [form |-> "dict", type |-> type, default |-> default]]

\* entry_points of the descriptors: none, or "main" with two parameters.
MainEntryPoint ==
    [parameters |-> <<YamlParamStr("alpha", "path"),
                      YamlParamDict("beta", None, Some(StrVal(sSpace)))>>,
     command |-> <<Lit(<<"e", " ">>), Ph("alpha"), Lit(<<" ">>), Ph("beta")>>]

\* Entry point names are character sequences: "m" is declared, the others are files.
epMain == <<"m">>
epX == <<"x">>
epPy == <<"t", ".", "p", "y">>
epSh == <<"t", ".", "s", "h">>
epR == <<"t", ".", "R">>
epTxt == <<"t", ".", "t", "x", "t">>

\* An entry point whose template names a parameter it does not declare.
UndeclaredEntryPoint ==
    [parameters |-> <<>>, command |-> <<Lit(<<"e", " ">>), Ph("gamma")>>]

EntryPointsChoices ==
    {EmptyMap, [n \in {epMain, epX} |->
                   IF n = epMain THEN MainEntryPoint ELSE UndeclaredEntryPoint]}

ImageValues == {None, Some(YStr(<<"i">>))}
VolumesValues ==
    {None, Some(YList(<<YStr(<<"/", "a">>)>>)), Some(YList(<<YInt(5)>>)), Some(YStr(sAB))}
EnvironmentValues ==
    {None,
     Some(YList(<<YStr(<<"a">>)>>)),
     Some(YList(<<YList(<<YStr(<<"a">>), YStr(<<"b">>)>>)>>)),
     Some(YList(<<YList(<<YStr(<<"a">>)>>)>>)),
     Some(YList(<<YInt(5)>>)),
     Some(YStr(sAB))}

\* A section with nothing but (at most) an image, and every section of the model.
SimpleSections ==
    {None} \cup {Some(Section(i, None, None)) : i \in ImageValues}
RichSections ==
    {None} \cup {Some(Section(i, v, e)) :
                    i \in ImageValues, v \in VolumesValues, e \in EnvironmentValues}

Descriptors ==
    {y \in [name : {None, Some("proj")}, conda_env : {None, Some("env.yaml")},
            docker_env : RichSections, singularity_env : RichSections,
            entry_points : EntryPointsChoices] :
        y.docker_env \in SimpleSections \/ y.singularity_env \in SimpleSections}

PathKinds == {"dir", "dir_no_descriptor", "file", "missing"}

FileChoices == [conda_env : BOOLEAN, default : BOOLEAN]

IdleLoadResult == [status |-> "idle", error |-> None, project |-> NoProject]

IdleLoad ==
    /\ ldPath = "missing"
    /\ ldYaml = EmptyYaml
    /\ ldFiles = [conda_env |-> FALSE, default |-> FALSE]
    /\ ldResult = IdleLoadResult

\* A project path, a descriptor and the dependency files beside it.
InitLoad ==
    /\ ldPath \in PathKinds
    /\ ldYaml \in Descriptors
    /\ ldFiles \in FileChoices
    /\ ldResult = IdleLoadResult

\* One call of load_project(project_path).
LoadProjectCall ==
    /\ ldResult' = LoadProject(ldPath, ldYaml, ldFiles)
    /\ UNCHANGED <<ldPath, ldYaml, ldFiles>>
    /\ UNCHANGED notLoad

NextLoad == LoadProjectCall

\* ------------------------------------------------- Project.get_entry_point
\* The index of the last "." of a name (0: none).
LastDot(name) ==
    IF \E i \in DOMAIN name : name[i] = "."
        THEN CHOOSE i \in DOMAIN name :
                 name[i] = "." /\ \A j \in DOMAIN name : name[j] = "." => j <= i
        ELSE 0

\* os.path.splitext(name)[1]: from the last dot on, a leading dot not counting.
FileExtension(name) ==
    IF LastDot(name) > 1 THEN SubSeq(name, LastDot(name), Len(name)) ELSE <<>>

\* ext_to_cmd: "python", and $SHELL or "bash" (SHELL is not set on the host).
PythonCmd == <<"p", "y", "t", "h", "o", "n">>
ShellCmd == <<"b", "a", "s", "h">>

\* "Rscript -e \"mlflow::mlflow_source('%s')\" --args" around the %s.
RscriptHead ==
    <<"R", "s", "c", "r", "i", "p", "t", " ", "-", "e", " ", "\"", "m", "l", "f", "l",
      "o", "w", ":", ":", "m", "l", "f", "l", "o", "w", "_", "s", "o", "u", "r", "c",
      "e", "(", "'">>
RscriptTail == <<"'", ")", "\"", " ", "-", "-", "a", "r", "g", "s">>

\* ext_to_cmd.
ExtToCmd == (<<".", "p", "y">> :> PythonCmd) @@ (<<".", "s", "h">> :> ShellCmd)

\* The value of geResult's ep when no entry point is returned.
NoEp == [name |-> <<>>, parameters |-> <<>>, command |-> <<>>]

\* A returned entry point; the last two fields are those of the error's message.
Found(ep) == [status |-> "ok", ep |-> ep, entry_points |-> {}, extensions |-> {}]

\* The ExecutionException of lines 151-155: its message gives
\* list(self._entry_points.keys()) and list(ext_to_cmd.keys()).
NoEntryPoint(project) ==
    [status |-> "unsupported_entry_point", ep |-> NoEp,
     entry_points |-> DOMAIN project.entry_points, extensions |-> DOMAIN ExtToCmd]

\* Project.get_entry_point: a declared entry point, else a script by its extension.
GetEntryPoint(project, entry_point) ==
    IF entry_point \in DOMAIN project.entry_points
        THEN Found(project.entry_points[entry_point])
    ELSE IF FileExtension(entry_point) \in DOMAIN ExtToCmd
        THEN Found(EntryPointInit(entry_point, <<>>,
                       <<Lit(ExtToCmd[FileExtension(entry_point)] \o <<" ">>
                                 \o Quote(entry_point))>>))
    ELSE IF FileExtension(entry_point) = <<".", "R">>
        THEN Found(EntryPointInit(entry_point, <<>>,
                       <<Lit(RscriptHead \o Quote(entry_point) \o RscriptTail)>>))
    ELSE NoEntryPoint(project)

\* ------------------------------------------------ EntryPoint.compute_command
\* The characters of a parameter name.
NameChars(key) ==
    CASE key = "alpha" -> <<"a", "l", "p", "h", "a">>
      [] key = "beta" -> <<"b", "e", "t", "a">>
      [] key = "gamma" -> <<"g", "a", "m", "m", "a">>
      [] key = "delta" -> <<"d", "e", "l", "t", "a">>
      [] OTHER -> <<"e", "x", "t", "r", "a">>

\* The order in which a user mapping's keys are iterated.
KeyOrder == ParamPool \o <<"extra">>

\* The list of extra items with every extra parameter left out.
ExtraPiecesNone(extra_params, i) == <<>>

RECURSIVE ExtraPieces(_, _)
\* ["--%s %s" % (key, value) for key, value in extra_params.items()], from the
\* i-th key of KeyOrder on.
ExtraPieces(extra_params, i) ==
    IF i > Len(KeyOrder) THEN <<>>
    ELSE (IF KeyOrder[i] \in DOMAIN extra_params
             THEN << <<"-", "-">> \o NameChars(KeyOrder[i]) \o <<" ">>
                        \o extra_params[KeyOrder[i]] >>
             ELSE <<>>)
         \o ExtraPieces(extra_params, i + 1)

\* self.command.format(**params): a placeholder without a value is a KeyError.
RenderFails(command, params) ==
    \E i \in DOMAIN command : command[i].k = "ph" /\ command[i].ph \notin DOMAIN params

RECURSIVE Render(_, _)
\* self.command.format(**params): the literal text with every {name} replaced.
Render(command, params) ==
    IF command = <<>> THEN <<>>
    ELSE (IF Head(command).k = "lit" THEN Head(command).lit ELSE params[Head(command).ph])
         \o Render(Tail(command), params)

RECURSIVE JoinSpace(_)
\* " ".join(command_arr).
JoinSpace(command_arr) ==
    IF command_arr = <<>> THEN <<>>
    ELSE IF Len(command_arr) = 1 THEN Head(command_arr)
    ELSE Head(command_arr) \o <<" ">> \o JoinSpace(Tail(command_arr))

\* EntryPoint.compute_command: the status, and the pieces " ".join puts together.
ComputeCommand(ep, user_parameters, storage_dir, dirs) ==
    LET r == ComputeParameters(ep.parameters, user_parameters, storage_dir, dirs) IN
    IF r.status # "ok"
        THEN [status |-> IF r.status = "missing" THEN "missing_params" ELSE r.error[1],
              command |-> <<>>, dirs |-> r.dirs]
    ELSE IF RenderFails(ep.command, r.final)
        THEN [status |-> "key_error", command |-> <<>>, dirs |-> r.dirs]
    ELSE [status |-> "ok",
          command |-> JoinSpace(<<Render(ep.command, r.final)>> \o ExtraPieces(r.extra, 1)),
          dirs |-> r.dirs]

\* --------------------- inputs of get_entry_point and compute_command
EntryNames == {epMain, epX, epPy, epSh, epR, epTxt}

EntryUserKeys == {"alpha", "gamma", "extra"}

EntryUserParams ==
    {Some(m) : m \in UNION {[ks -> UserValues] : ks \in SUBSET EntryUserKeys}}

NoCommandYet == [status |-> "idle", command |-> <<>>, dirs |-> {}]

NotAsked == [status |-> "idle", ep |-> NoEp, entry_points |-> {}, extensions |-> {}]

\* The projects' entry points: those of the descriptors, and one declaring "t.py".
EntryProjects ==
    {ParseEntryPoints([entry_points |-> eps]) :
        eps \in EntryPointsChoices \cup {[n \in {epPy} |-> MainEntryPoint]}}

IdleEntry ==
    /\ geEntryPoints = EmptyMap
    /\ geName = epMain
    /\ geResult = NotAsked
    /\ ccUser = Some(EmptyMap)
    /\ ccStorage = None
    /\ ccDirs = {}
    /\ ccResult = NoCommandYet

\* A project's entry points, the name asked for, and compute_command's arguments.
InitEntry ==
    /\ geEntryPoints \in EntryProjects
    /\ geName \in EntryNames
    /\ geResult = NotAsked
    /\ ccUser \in EntryUserParams
    /\ ccStorage \in StorageChoices
    /\ ccDirs = {}
    /\ ccResult = NoCommandYet

\* One call of project.get_entry_point(geName).
GetEntryPointCall ==
    /\ geResult' = GetEntryPoint([entry_points |-> geEntryPoints], geName)
    /\ UNCHANGED <<geEntryPoints, geName, ccUser, ccStorage, ccDirs, ccResult>>
    /\ UNCHANGED notEntry

\* One call of compute_command(ccUser, ccStorage) on the entry point returned.
ComputeCommandCall ==
    /\ geResult.status = "ok"
    /\ LET r == ComputeCommand(geResult.ep, ccUser, ccStorage, ccDirs) IN
        /\ ccResult' = r
        /\ ccDirs' = r.dirs
    /\ UNCHANGED <<geEntryPoints, geName, geResult, ccUser, ccStorage>>
    /\ UNCHANGED notEntry

NextEntry == GetEntryPointCall \/ ComputeCommandCall

\* ========================================================= run environments
\* The abstract methods of RunEnvironment (run_environment.py).
AbstractMethods ==
    {"validate_environment", "validate_installation", "prepare_environment",
     "get_command", "add_run_args"}

\* The methods each environment class defines.
MethodsOf(env_name) ==
    IF env_name = "conda"
        THEN {"validate_environment", "validate_installation", "prepare_environment",
              "get_tracking_cmd_and_envs", "get_command", "get_command_separator"}
        ELSE {"validate_installation", "validate_environment", "prepare_environment",
              "get_command", "add_run_args", "get_command_separator"}

\* A class can be instantiated when it leaves no abstract method undefined.
Instantiable(env_name) == AbstractMethods \subseteq MethodsOf(env_name)

\* The section of the project an environment reads.
SectionOf(env_name, project) ==
    IF env_name = "docker" THEN project.docker_env ELSE project.singularity_env

\* validate_installation: the host has the tool, or ExecutionException.
ValidateInstallation(env_name, tool_ok) ==
    IF env_name = "conda" \/ tool_ok THEN None ELSE Some("tool_not_found")

\* validate_environment: the containers need a project name and an image; conda
\* resolves or creates its environment.
ValidateEnvironment(env_name, project, conda_ok) ==
    IF env_name = "conda"
        THEN IF conda_ok THEN None ELSE Some("conda_env_failed")
    ELSE IF project.name = None THEN Some("no_project_name")
    ELSE IF ~YTruthy(SectionOf(env_name, project)[1].image) THEN Some("no_image")
    ELSE None

\* prepare_environment: the image is built or pulled, or the call raises.
PrepareEnvironment(env_name, build_ok) ==
    IF env_name = "conda" \/ build_ok THEN None ELSE Some("prepare_failed")

RECURSIVE EnvEntriesError(_, _)
\* get_command's loop over the section's environment entries: a list entry is read
\* at [0] and [1]; a string entry must be set on the host.
EnvEntriesError(entries, host_var_set) ==
    IF entries = <<>> THEN None
    ELSE IF Head(entries).t = "list"
        THEN IF Len(Head(entries).items) < 2 THEN Some("index_error")
             ELSE EnvEntriesError(Tail(entries), host_var_set)
    ELSE IF ~host_var_set THEN Some("missing_env_var")
    ELSE EnvEntriesError(Tail(entries), host_var_set)

\* get_command: the error it raises, or None.
GetCommand(env_name, project, host_var_set) ==
    IF env_name = "conda" THEN None
    ELSE IF SectionOf(env_name, project)[1].environment = None THEN None
    ELSE EnvEntriesError(SectionOf(env_name, project)[1].environment[1].items,
                         host_var_set)

\* make_volume_abs (mlflow.projects.utils) as singularity.py lines 154-156 use
\* it: a volume whose host path is relative becomes one with an absolute path.
MakeVolumeAbs(volume) == Abspath(volume)

\* Lines 155-156 of singularity.py: volumes[i] = make_volume_abs(volume), for each
\* i, on the list that _project.singularity_env holds.
RewriteVolumes(volumes) ==
    YList([i \in DOMAIN volumes.items |-> YStr(MakeVolumeAbs(volumes.items[i].s))])

\* The project once get_command has run, raised or not: lines 152-157 of
\* singularity.py come before any raise; docker.py lines 173-176 and conda only
\* read the project.
ProjectAfterGetCommand(env_name, project) ==
    IF env_name = "singularity" /\ YTruthy(project.singularity_env[1].volumes)
        THEN [project EXCEPT !.singularity_env =
                 Some([@[1] EXCEPT !.volumes = Some(RewriteVolumes(@[1]))])]
        ELSE project

\* ================================= DockerRunEnvironment.prepare_environment
\* git_commit[:7]: the characters of the commit an image tag keeps.
ShortCommit == 7

\* Python's s[:n].
Prefix(s, n) == SubSeq(s, 1, IF Len(s) < n THEN Len(s) ELSE n)

DockerProject == <<"d", "o", "c", "k", "e", "r", "-", "p", "r", "o", "j", "e", "c", "t">>

\* _get_docker_image_uri: the project's name, "docker-project" when it has none,
\* then ":" and the first seven characters of the commit when there is one.
DockerImageUri(name, git_commit) ==
    LET repository_uri == IF name = None \/ name[1] = <<>> THEN DockerProject ELSE name[1]
        version_string ==
            IF git_commit = None \/ git_commit[1] = <<>> THEN <<>>
            ELSE <<":">> \o Prefix(git_commit[1], ShortCommit)
    IN  repository_uri \o version_string

\* What prepare_environment creates under root_temp_directory(): the staging
\* directory of tempfile.mkdtemp and the tar file of tempfile.mkstemp.
BuildArtifacts == {"directory", "result_path"}

\* A log record: the message and the path it is about.
Logged(msg, about) == [msg |-> msg, about |-> about]

\* The tags prepare_environment sets on the run.
DockerTags == <<"MLFLOW_DOCKER_IMAGE_URI", "MLFLOW_DOCKER_IMAGE_ID">>

\* ------------------------------------------------ inputs of prepare_environment
PrepareProjects ==
    [name : {None, Some(<<"p">>)},
     git_commit : {None, Some(<<"0", "1", "2", "3", "4", "5", "6", "7", "8">>),
                   Some(<<"a", "b">>)}]

\* What other runs have left under root_temp_directory().
ForeignEntries == {"other_directory", "other_file"}

IdlePrepare ==
    /\ peProject = [name |-> None, git_commit |-> None]
    /\ pePc = "done"
    /\ peTmp = {}
    /\ peImageUri = <<>>
    /\ pePending = None
    /\ peLog = <<>>
    /\ peTags = {}
    /\ peImage = FALSE
    /\ peError = None

\* One call of prepare_environment about to start.
InitPrepare ==
    /\ peProject \in PrepareProjects
    /\ pePc = "image_uri"
    /\ peTmp \in SUBSET ForeignEntries
    /\ peImageUri = <<>>
    /\ pePending = None
    /\ peLog = <<>>
    /\ peTags = {}
    /\ peImage = FALSE
    /\ peError = None

\* ------------------------------------------- the steps of prepare_environment
\* Lines 71-79: the image's URI and the Dockerfile's text.
PrepareImageUri ==
    /\ pePc = "image_uri"
    /\ peImageUri' = DockerImageUri(peProject.name, peProject.git_commit)
    /\ pePc' = "mkdtemp"
    /\ UNCHANGED <<peProject, peTmp, pePending, peLog, peTags, peImage, peError>>
    /\ UNCHANGED notPrepare

\* _create_docker_build_ctx, lines 120-126, before the try block: the staging
\* directory is created, or the call raises.
CtxMkdtemp ==
    /\ pePc = "mkdtemp"
    /\ \E ok \in BOOLEAN :
        /\ peTmp' = IF ok THEN peTmp \cup {"directory"} ELSE peTmp
        /\ peError' = IF ok THEN peError ELSE Some("mkdtemp")
        /\ pePc' = IF ok THEN "copytree" ELSE "done"
    /\ UNCHANGED <<peProject, peImageUri, pePending, peLog, peTags, peImage>>
    /\ UNCHANGED notPrepare

\* Lines 128-129: the working directory is copied into the staging directory.
CtxCopytree ==
    /\ pePc = "copytree"
    /\ \E ok \in BOOLEAN :
        /\ pePending' = IF ok THEN pePending ELSE Some("copytree")
        /\ pePc' = IF ok THEN "write_dockerfile" ELSE "rmtree"
    /\ UNCHANGED <<peProject, peTmp, peImageUri, peLog, peTags, peImage, peError>>
    /\ UNCHANGED notPrepare

\* Lines 130-131: the Dockerfile is written into the copy.
CtxWriteDockerfile ==
    /\ pePc = "write_dockerfile"
    /\ \E ok \in BOOLEAN :
        /\ pePending' = IF ok THEN pePending ELSE Some("write_dockerfile")
        /\ pePc' = IF ok THEN "mkstemp" ELSE "rmtree"
    /\ UNCHANGED <<peProject, peTmp, peImageUri, peLog, peTags, peImage, peError>>
    /\ UNCHANGED notPrepare

\* Line 132: the file of the tar archive is created.
CtxMkstemp ==
    /\ pePc = "mkstemp"
    /\ \E ok \in BOOLEAN :
        /\ peTmp' = IF ok THEN peTmp \cup {"result_path"} ELSE peTmp
        /\ pePending' = IF ok THEN pePending ELSE Some("mkstemp")
        /\ pePc' = IF ok THEN "make_tarfile" ELSE "rmtree"
    /\ UNCHANGED <<peProject, peImageUri, peLog, peTags, peImage, peError>>
    /\ UNCHANGED notPrepare

\* Lines 133-135: the copy is packed into that file.
CtxMakeTarfile ==
    /\ pePc = "make_tarfile"
    /\ \E ok \in BOOLEAN :
        /\ pePending' = IF ok THEN pePending ELSE Some("make_tarfile")
        /\ pePc' = "rmtree"
    /\ UNCHANGED <<peProject, peTmp, peImageUri, peLog, peTags, peImage, peError>>
    /\ UNCHANGED notPrepare

\* Lines 136-138, the finally clause: shutil.rmtree(directory); its own exception
\* replaces the pending one, otherwise the pending one goes on, otherwise
\* result_path is returned.
CtxRmtree ==
    /\ pePc = "rmtree"
    /\ \E ok \in BOOLEAN :
        /\ peTmp' = IF ok THEN peTmp \ {"directory"} ELSE peTmp
        /\ peError' = IF ~ok THEN Some("rmtree") ELSE pePending
        /\ pePc' = IF ok /\ pePending = None THEN "open" ELSE "done"
    /\ pePending' = None
    /\ UNCHANGED <<peProject, peImageUri, peLog, peTags, peImage>>
    /\ UNCHANGED notPrepare

\* Line 81: the archive is opened for reading.
PrepareOpen ==
    /\ pePc = "open"
    /\ \E ok \in BOOLEAN :
        /\ peError' = IF ok THEN peError ELSE Some("open")
        /\ pePc' = IF ok THEN "build" ELSE "done"
    /\ UNCHANGED <<peProject, peTmp, peImageUri, pePending, peLog, peTags, peImage>>
    /\ UNCHANGED notPrepare

\* Lines 82-91: docker.from_env() and client.images.build(...).
PrepareBuild ==
    /\ pePc = "build"
    /\ peLog' = Append(peLog, Logged("building", "image_uri"))
    /\ \E ok \in BOOLEAN :
        /\ peError' = IF ok THEN peError ELSE Some("build")
        /\ pePc' = IF ok THEN "remove" ELSE "done"
    /\ UNCHANGED <<peProject, peTmp, peImageUri, pePending, peTags, peImage>>
    /\ UNCHANGED notPrepare

\* Lines 92-95: os.remove(build_ctx_path); an exception is logged and dropped.
PrepareRemove ==
    /\ pePc = "remove"
    /\ \E ok \in BOOLEAN :
        /\ peTmp' = IF ok THEN peTmp \ {"result_path"} ELSE peTmp
        /\ peLog' = IF ok THEN peLog
                    ELSE Append(peLog, Logged("not_deleted", "result_path"))
    /\ pePc' = "set_tag"
    /\ UNCHANGED <<peProject, peImageUri, pePending, peTags, peImage, peError>>
    /\ UNCHANGED notPrepare

\* Lines 96-98: the two tags are set in order, then self._image; a set_tag that
\* raises ends the call.
PrepareSetTags ==
    /\ pePc = "set_tag"
    /\ \E n \in 0..Len(DockerTags) :
        /\ peTags' = {DockerTags[i] : i \in 1..n}
        /\ peImage' = (n = Len(DockerTags))
        /\ peError' = IF n = Len(DockerTags) THEN peError ELSE Some("set_tag")
    /\ pePc' = "done"
    /\ UNCHANGED <<peProject, peTmp, peImageUri, pePending, peLog>>
    /\ UNCHANGED notPrepare

NextPrepare ==
    \/ PrepareImageUri
    \/ CtxMkdtemp
    \/ CtxCopytree
    \/ CtxWriteDockerfile
    \/ CtxMkstemp
    \/ CtxMakeTarfile
    \/ CtxRmtree
    \/ PrepareOpen
    \/ PrepareBuild
    \/ PrepareRemove
    \/ PrepareSetTags

\* ========================================================= LocalBackend.run
\* Lines 62-75: the environment run selects, the later test overriding the earlier.
SelectEnvironment(use_conda, project) ==
    LET by_conda == IF use_conda THEN "conda" ELSE ""
        by_docker == IF SectionTruthy(project.docker_env) THEN "docker" ELSE by_conda
    IN  IF SectionTruthy(project.singularity_env) THEN "singularity" ELSE by_docker

\* The lifecycle of lines 80-83, in the order of the calls.
Lifecycle ==
    <<"validate_installation", "validate_environment", "prepare_environment",
      "get_command">>

\* The statement after a lifecycle call that goes on although the call raised.
AfterCallSwallowing(err, next) == next

\* The statement after a lifecycle call: an exception ends run.
AfterCall(err, next) == IF err = None THEN next ELSE "done"

\* get_entry_point_command (mlflow.projects.utils): the entry point's command,
\* computed against a storage directory of the run's own.
GetEntryPointCommand(project, entry_point, params) ==
    LET found == GetEntryPoint(project, entry_point) IN
    IF found.status # "ok"
        THEN [status |-> found.status, command |-> <<>>, dirs |-> {}]
        ELSE ComputeCommand(found.ep, params, Some("store"), {})

\* The exception run ends with: the statement that raised it, and its kind.
Raised(at, kind) == Some([at |-> at, kind |-> kind])

\* rnError after a call that raised err (None: it returned).
ErrorAfter(at, err) == IF err = None THEN rnError ELSE Raised(at, err[1])

\* Line 91: what follows the environment's lifecycle.
Launch(synchronous) == IF synchronous THEN "entry_point_command" ELSE "invoke"

\* LocalSubmittedRun.__init__(self, command_proc) takes one argument; lines 129 and
\* 192 of local.py pass two (run_id and the process).
InitParameters == 1
WrapArguments == 2

\* LocalSubmittedRun(run_id, process): the TypeError of a call whose argument count
\* is not the constructor's.
Wrap == IF WrapArguments = InitParameters THEN None ELSE Some("type_error")

\* _invoke_mlflow_run_subprocess: its parameters, and the keywords line 99 passes.
InvokeParameters ==
    {"work_dir", "entry_point", "parameters", "run_environment", "use_conda",
     "storage_dir"}
InvokeKeywords ==
    {"work_dir", "entry_point", "parameters", "experiment_id", "run_environment",
     "use_conda", "storage_dir"}

\* _build_mlflow_run_cmd: its parameters, and the keywords line 118 passes.
BuildParameters ==
    {"uri", "entry_point", "run_environment", "use_conda", "storage_dir", "run_id",
     "parameters"}
BuildKeywords ==
    {"uri", "entry_point", "run_environment", "storage_dir", "run_id", "parameters"}

\* A call by keywords: every keyword is a parameter and no parameter is left out.
CallBinds(keywords, parameters) == keywords = parameters

\* A spawned process: its working directory, its environment, and whether it leads
\* a session of its own (preexec_fn=os.setsid).
Process(cwd, env, new_session) == [cwd |-> cwd, env |-> env, new_session |-> new_session]

\* ------------------------------------------------------------ inputs of run
RunVolumes == {Some(YList(<<YStr(<<"d">>)>>)), Some(YList(<<YStr(<<"/", "d">>)>>))}

RunSections ==
    {None, Some(Section(Some(YStr(<<"i">>)), None, None))}
    \cup {Some(Section(Some(YStr(<<"i">>)), v, None)) : v \in RunVolumes}
    \cup {Some(Section(Some(YStr(<<"i">>)), None, e)) :
             e \in {Some(YList(<<YStr(<<"a">>)>>)),
                    Some(YList(<<YList(<<YStr(<<"a">>)>>)>>))}}

RunDescriptors ==
    [name : {None, Some("proj")}, conda_env : {None, Some("env.yaml")},
     docker_env : RunSections,
     singularity_env :
         {None} \cup {Some(Section(Some(YStr(<<"i">>)), v, None)) :
                         v \in {None} \cup RunVolumes},
     entry_points : EntryPointsChoices]

RunParams ==
    {Some(EmptyMap), Some([k \in {"alpha"} |-> StrVal(sAB)]),
     Some([k \in {"alpha", "extra"} |-> IF k = "alpha" THEN StrVal(sAB) ELSE StrVal(sQuote)])}

\* backend_config's use_conda and synchronous, os.name, and run's arguments.
RunConfigs ==
    [use_conda : BOOLEAN, synchronous : BOOLEAN, os_name : {"posix", "nt"},
     entry_point : {epMain, epX, epPy, epTxt}, params : RunParams]

NoCommand == [status |-> "idle", command |-> <<>>, dirs |-> {}]

IdleRun ==
    /\ rnCfg = [use_conda |-> FALSE, synchronous |-> TRUE, os_name |-> "posix",
                entry_point |-> epMain, params |-> Some(EmptyMap)]
    /\ rnPc = "done"
    /\ rnProject = NoProject
    /\ rnEnvName = ""
    /\ rnEnvObj = "none"
    /\ rnTag = None
    /\ rnCalls = <<>>
    /\ rnCommand = NoCommand
    /\ rnSpawned = <<>>
    /\ rnHandle = FALSE
    /\ rnError = None

\* A project directory and one call of run about to start.
InitRun ==
    /\ ldPath \in {"dir", "dir_no_descriptor"}
    /\ ldYaml \in RunDescriptors
    /\ ldFiles \in [conda_env : {TRUE}, default : BOOLEAN]
    /\ ldResult = IdleLoadResult
    /\ rnCfg \in RunConfigs
    /\ rnPc = "fetch"
    /\ rnProject = NoProject
    /\ rnEnvName = ""
    /\ rnEnvObj = "none"
    /\ rnTag = None
    /\ rnCalls = <<>>
    /\ rnCommand = NoCommand
    /\ rnSpawned = <<>>
    /\ rnHandle = FALSE
    /\ rnError = None

\* ------------------------------------------------------------ the steps of run
\* Line 48: fetch_and_validate_project gives the working directory, or raises.
RunFetch ==
    /\ rnPc = "fetch"
    /\ \E fetched \in BOOLEAN :
        /\ rnError' = IF fetched THEN rnError ELSE Raised("fetch", "fetch_failed")
        /\ rnPc' = IF fetched THEN "load" ELSE "done"
    /\ UNCHANGED <<rnCfg, rnProject, rnEnvName, rnEnvObj, rnTag, rnCalls, rnCommand,
                   rnSpawned, rnHandle>>
    /\ UNCHANGED <<loadVars, notRun>>

\* Line 49: project = load_project(work_dir).
RunLoadProject ==
    /\ rnPc = "load"
    /\ LET r == LoadProject(ldPath, ldYaml, ldFiles) IN
        /\ ldResult' = r
        /\ rnProject' = r.project
        /\ rnError' = ErrorAfter("load_project", r.error)
        /\ rnPc' = IF r.error = None THEN "select" ELSE "done"
    /\ UNCHANGED <<ldPath, ldYaml, ldFiles>>
    /\ UNCHANGED <<rnCfg, rnEnvName, rnEnvObj, rnTag, rnCalls, rnCommand, rnSpawned,
                   rnHandle>>
    /\ UNCHANGED notRun

\* Lines 59-79: the environment is selected; when there is one, the run is tagged
\* with its name and the class is instantiated.
RunSelectEnvironment ==
    /\ rnPc = "select"
    /\ LET env_name == SelectEnvironment(rnCfg.use_conda, rnProject) IN
        /\ rnEnvName' = env_name
        /\ rnTag' = IF env_name = "" THEN None ELSE Some(env_name)
        /\ rnEnvObj' = IF env_name # "" /\ Instantiable(env_name) THEN "instance" ELSE "none"
        /\ rnError' = IF env_name # "" /\ ~Instantiable(env_name)
                         THEN Raised("instantiate", "type_error") ELSE rnError
        /\ rnPc' = IF env_name = "" THEN Launch(rnCfg.synchronous)
                   ELSE IF Instantiable(env_name) THEN "validate_installation"
                   ELSE "done"
    /\ UNCHANGED <<rnCfg, rnProject, rnCalls, rnCommand, rnSpawned, rnHandle>>
    /\ UNCHANGED <<loadVars, notRun>>

\* Line 80.
RunValidateInstallation ==
    /\ rnPc = "validate_installation"
    /\ \E tool_ok \in BOOLEAN :
        LET err == ValidateInstallation(rnEnvName, tool_ok) IN
        /\ rnError' = ErrorAfter("validate_installation", err)
        /\ rnPc' = AfterCall(err, "validate_environment")
    /\ rnCalls' = Append(rnCalls, "validate_installation")
    /\ UNCHANGED <<rnCfg, rnProject, rnEnvName, rnEnvObj, rnTag, rnCommand, rnSpawned,
                   rnHandle>>
    /\ UNCHANGED <<loadVars, notRun>>

\* Line 81.
RunValidateEnvironment ==
    /\ rnPc = "validate_environment"
    /\ \E conda_ok \in BOOLEAN :
        LET err == ValidateEnvironment(rnEnvName, rnProject, conda_ok) IN
        /\ rnError' = ErrorAfter("validate_environment", err)
        /\ rnPc' = AfterCall(err, "prepare_environment")
    /\ rnCalls' = Append(rnCalls, "validate_environment")
    /\ UNCHANGED <<rnCfg, rnProject, rnEnvName, rnEnvObj, rnTag, rnCommand, rnSpawned,
                   rnHandle>>
    /\ UNCHANGED <<loadVars, notRun>>

\* Line 82.
RunPrepareEnvironment ==
    /\ rnPc = "prepare_environment"
    /\ \E build_ok \in BOOLEAN :
        LET err == PrepareEnvironment(rnEnvName, build_ok) IN
        /\ rnError' = ErrorAfter("prepare_environment", err)
        /\ rnPc' = AfterCall(err, "get_command")
    /\ rnCalls' = Append(rnCalls, "prepare_environment")
    /\ UNCHANGED <<rnCfg, rnProject, rnEnvName, rnEnvObj, rnTag, rnCommand, rnSpawned,
                   rnHandle>>
    /\ UNCHANGED <<loadVars, notRun>>

\* Lines 83-91: get_command and get_command_separator, then the mode is read.
RunGetCommand ==
    /\ rnPc = "get_command"
    /\ \E host_var_set \in BOOLEAN :
        LET err == GetCommand(rnEnvName, rnProject, host_var_set) IN
        /\ rnError' = ErrorAfter("get_command", err)
        /\ rnPc' = AfterCall(err, Launch(rnCfg.synchronous))
    /\ rnProject' = ProjectAfterGetCommand(rnEnvName, rnProject)
    /\ rnCalls' = Append(rnCalls, "get_command")
    /\ UNCHANGED <<rnCfg, rnEnvName, rnEnvObj, rnTag, rnCommand, rnSpawned, rnHandle>>
    /\ UNCHANGED <<loadVars, notRun>>

\* Lines 92-93: the entry point's command is computed and joined to the prefix.
RunEntryPointCommand ==
    /\ rnPc = "entry_point_command"
    /\ LET r == GetEntryPointCommand(rnProject, rnCfg.entry_point, rnCfg.params)
           err == IF r.status = "ok" THEN None ELSE Some(r.status)
       IN
        /\ rnCommand' = r
        /\ rnError' = ErrorAfter("get_entry_point_command", err)
        /\ rnPc' = AfterCall(err, "spawn")
    /\ UNCHANGED <<rnCfg, rnProject, rnEnvName, rnEnvObj, rnTag, rnCalls, rnSpawned,
                   rnHandle>>
    /\ UNCHANGED <<loadVars, notRun>>

\* _run_entry_point, lines 181-191: run_environment's variables are merged into a
\* copy of os.environ and the command is spawned; without an environment line 182
\* reads an attribute of None, and on nt line 191 reads an undefined name.
RunSpawn ==
    /\ rnPc = "spawn"
    /\ IF rnEnvObj = "none"
          THEN /\ rnError' = Raised("_run_entry_point", "attribute_error")
               /\ rnPc' = "done"
               /\ UNCHANGED rnSpawned
       ELSE IF rnCfg.os_name = "nt"
          THEN /\ rnError' = Raised("_run_entry_point", "name_error")
               /\ rnPc' = "done"
               /\ UNCHANGED rnSpawned
       ELSE /\ rnSpawned' = Append(rnSpawned, Process("work_dir", "merged", FALSE))
            /\ rnPc' = "wrap"
            /\ UNCHANGED rnError
    /\ UNCHANGED <<rnCfg, rnProject, rnEnvName, rnEnvObj, rnTag, rnCalls, rnCommand,
                   rnHandle>>
    /\ UNCHANGED <<loadVars, notRun>>

\* Line 192 (and 129): return LocalSubmittedRun(run_environment.run_id, process).
RunWrap ==
    /\ rnPc = "wrap"
    /\ rnHandle' = (Wrap = None)
    /\ rnError' = ErrorAfter("LocalSubmittedRun", Wrap)
    /\ rnPc' = "done"
    /\ UNCHANGED <<rnCfg, rnProject, rnEnvName, rnEnvObj, rnTag, rnCalls, rnCommand,
                   rnSpawned>>
    /\ UNCHANGED <<loadVars, notRun>>

\* Lines 97-107 and _invoke_mlflow_run_subprocess: the call by keywords, then the
\* body's reads of run_environment, _build_mlflow_run_cmd and _run_mlflow_run_cmd.
RunInvokeSubprocess ==
    /\ rnPc = "invoke"
    /\ IF ~CallBinds(InvokeKeywords, InvokeParameters)
          THEN /\ rnError' = Raised("_invoke_mlflow_run_subprocess", "type_error")
               /\ rnPc' = "done"
               /\ UNCHANGED rnSpawned
       ELSE IF rnEnvObj = "none"
          THEN /\ rnError' = Raised("_invoke_mlflow_run_subprocess", "attribute_error")
               /\ rnPc' = "done"
               /\ UNCHANGED rnSpawned
       ELSE IF ~CallBinds(BuildKeywords, BuildParameters)
          THEN /\ rnError' = Raised("_build_mlflow_run_cmd", "type_error")
               /\ rnPc' = "done"
               /\ UNCHANGED rnSpawned
       ELSE /\ rnSpawned' = Append(rnSpawned, Process("host", "merged", TRUE))
            /\ rnPc' = "wrap"
            /\ UNCHANGED rnError
    /\ UNCHANGED <<rnCfg, rnProject, rnEnvName, rnEnvObj, rnTag, rnCalls, rnCommand,
                   rnHandle>>
    /\ UNCHANGED <<loadVars, notRun>>

\* ------------------------------------------- the selection for any Project
\* Project objects as the constructor takes them, both container sections at once
\* included.
SelectProjects ==
    {Project(c, EmptyMap, d, g, Some("proj")) :
        c \in {None, Some(Join("dir", "conda.yaml"))}, d \in RunSections,
        g \in RunSections}

\* run at line 59 with such a project.
InitSelect ==
    /\ IdleLoad
    /\ rnCfg \in [use_conda : BOOLEAN, synchronous : BOOLEAN, os_name : {"posix"},
                  entry_point : {epMain}, params : {Some(EmptyMap)}]
    /\ rnPc = "select"
    /\ rnProject \in SelectProjects
    /\ rnEnvName = ""
    /\ rnEnvObj = "none"
    /\ rnTag = None
    /\ rnCalls = <<>>
    /\ rnCommand = NoCommand
    /\ rnSpawned = <<>>
    /\ rnHandle = FALSE
    /\ rnError = None

NextSelect == RunSelectEnvironment

NextRun ==
    \/ RunFetch
    \/ RunLoadProject
    \/ RunSelectEnvironment
    \/ RunValidateInstallation
    \/ RunValidateEnvironment
    \/ RunPrepareEnvironment
    \/ RunGetCommand
    \/ RunEntryPointCommand
    \/ RunSpawn
    \/ RunWrap
    \/ RunInvokeSubprocess

Next ==
    \/ ProcExit
    \/ GetStatus
    \/ WaitCall
    \/ WaitReturn
    \/ CancelCall
    \/ CancelSignal
    \/ CancelWait

IdleHandle == InitHandle /\ isLeader = TRUE

Init == InitHandle /\ IdleParams /\ IdleLoad /\ IdleRun /\ IdleEntry /\ IdlePrepare

Spec == Init /\ [][Next]_vars

\* A caller inside cancel() goes on, and SIGKILL ends the process it was sent to.
FairCancel ==
    /\ WF_vars(CancelSignal)
    /\ WF_vars(CancelWait)
    /\ WF_vars(killPending /\ ProcExit)

SpecFair == Init /\ [][Next]_vars /\ FairCancel

InitP == InitParams /\ IdleHandle /\ IdleLoad /\ IdleRun /\ IdleEntry /\ IdlePrepare

SpecParams == InitP /\ [][NextParams]_vars

InitL == InitLoad /\ IdleHandle /\ IdleParams /\ IdleRun /\ IdleEntry /\ IdlePrepare

SpecLoad == InitL /\ [][NextLoad]_vars

InitR == InitRun /\ IdleHandle /\ IdleParams /\ IdleEntry /\ IdlePrepare

SpecRun == InitR /\ [][NextRun]_vars

InitS == InitSelect /\ IdleHandle /\ IdleParams /\ IdleEntry /\ IdlePrepare

SpecSelect == InitS /\ [][NextSelect]_vars

InitE == InitEntry /\ IdleHandle /\ IdleParams /\ IdleLoad /\ IdleRun /\ IdlePrepare

SpecEntry == InitE /\ [][NextEntry]_vars

InitD ==
    InitPrepare /\ IdleHandle /\ IdleParams /\ IdleLoad /\ IdleRun /\ IdleEntry

SpecPrepare == InitD /\ [][NextPrepare]_vars

\* ------------------------------------------------------------ claims C1..C4
Terminal == {Some("FINISHED"), Some("FAILED")}

\* The status get_status() would report in the current state.
ReportedStatus == StatusOf(PollCode)

\* C1: get_status never blocks (it can be taken whenever the caller is not inside
\* another call, also while the child runs), and what it returns is the child's
\* state at the call: RUNNING exactly while the child has not exited, FINISHED
\* exactly when it exited with code 0, FAILED exactly when it exited with any other
\* code (a kill by signal included).
C1_GetStatusReportsProcessState ==
    /\ [](pc = "idle" => ENABLED GetStatus)
    /\ [][GetStatus =>
            /\ (lastStatus' = Some("RUNNING")) <=> (proc = "running")
            /\ (lastStatus' = Some("FINISHED")) <=> (proc # "running" /\ exitCode = Some(0))
            /\ (lastStatus' = Some("FAILED")) <=>
                   (proc # "running" /\ exitCode # Some(0))]_vars

\* C1 witness: get_status has reported FAILED for a child that exited with code 1.
C1_Witness ==
    /\ lastStatus = Some("FAILED")
    /\ exitCode = Some(1)
    /\ pc = "idle"

\* C2: once get_status has returned FINISHED or FAILED, every later step (of
\* get_status, wait, cancel or the child) leaves the status get_status reports at
\* that value, so RUNNING is never reported again; and cancel() sends its signal,
\* and ends as a kill, only from a handle whose status is RUNNING.
C2_StatusTerminal ==
    [][/\ (lastStatus \in Terminal =>
              /\ lastStatus' = lastStatus
              /\ Some(ReportedStatus) = lastStatus
              /\ Some(ReportedStatus') = lastStatus)
       /\ (signals' # signals =>
              /\ returncode = None
              /\ lastStatus \notin Terminal)
       /\ (lastCancel' = Some("killed") /\ lastCancel # Some("killed") =>
              lastStatus \notin Terminal)]_vars

\* C2 witness: FAILED has been reported, and after it a wait() and a cancel() have
\* both returned.
C2_Witness ==
    /\ lastStatus = Some("FAILED")
    /\ lastWait = Some(FALSE)
    /\ lastCancel = Some("noop")
    /\ exitCode = Some(2)

\* C3: cancel() called when the child has already exited (reaped or not) returns at
\* once without sending a signal and without an OSError, and leaves the reported
\* status as it was; over the whole life of a handle cancel() sends at most one
\* signal, so every repeated cancel is such a no-op.
C3_CancelExitedNoop ==
    /\ [](Len(signals) + osErrors <= 1)
    /\ [][CancelCall /\ proc # "running" =>
            /\ pc' = "idle"
            /\ lastCancel' = Some("noop")
            /\ signals' = signals
            /\ osErrors' = osErrors
            /\ killPending' = killPending
            /\ lastStatus' = lastStatus
            /\ ReportedStatus' = ReportedStatus]_vars

\* C3 witness: a first cancel() killed the child, a later cancel() was a no-op.
C3_Witness ==
    /\ signals = <<"group">>
    /\ exitCode = Some(-SIGKILL)
    /\ lastCancel = Some("noop")

\* C4: wait() returns only after the child has exited, its result is TRUE exactly
\* when the exit code is 0, and from then on get_status reports FINISHED when
\* wait() returned TRUE and FAILED when it returned FALSE.
C4_WaitResult ==
    lastWait # None =>
        /\ proc # "running"
        /\ lastWait = Some(exitCode = Some(0))
        /\ ReportedStatus = IF lastWait = Some(TRUE) THEN "FINISHED" ELSE "FAILED"

\* C4 witness: wait() has returned FALSE for a child that exited with code 1.
C4_Witness ==
    /\ lastWait = Some(FALSE)
    /\ exitCode = Some(1)
    /\ returncode = Some(1)

\* ----------------------------------------------------------- claims C9, C10
\* The user's mapping of the last call, None read as the empty mapping.
UserMap == IF cpUser = None THEN EmptyMap ELSE cpUser[1]

\* The declared parameters the user gives no value for and that have no default.
Lacking ==
    {epParams[i].name : i \in {j \in DOMAIN epParams :
        epParams[j].name \notin DOMAIN UserMap /\ epParams[j].default = None}}

\* C9: compute_parameters ends with the missing-parameter error exactly when some
\* declared parameter is absent from the user's parameters and has no default; the
\* error then lists every such parameter, each once, and the call has created no
\* directory (it resolved nothing) before raising.
C9_MissingParameters ==
    cpResult.status # "idle" =>
        /\ (cpResult.status = "missing") <=> (Lacking # {})
        /\ cpResult.status = "missing" =>
              /\ {cpResult.missing[i] : i \in DOMAIN cpResult.missing} = Lacking
              /\ Len(cpResult.missing) = Cardinality(Lacking)
              /\ cpResult.mkdirs = 0
              /\ cpResult.dirs = cpResult.before
              /\ storageDirs = cpResult.before

\* C9 witness: two parameters are missing and both are listed, although the first
\* declared parameter is a path whose value would have been downloaded.
C9_Witness ==
    /\ cpResult.status = "missing"
    /\ cpResult.missing = <<"alpha", "beta">>
    /\ epParams[1].type = "path"
    /\ cpStorage # None

\* The escaped value compute_parameters must bind the i-th declared parameter to:
\* the user's value when given, else the default, resolved as the type asks (a
\* path under a storage directory becomes the absolute local path or the download
\* path of param_<i-1>), then stringified and shell-escaped once.
ExpectedFinal(i) ==
    LET param == epParams[i]
        chosen == IF param.name \in DOMAIN UserMap
                     THEN UserMap[param.name] ELSE param.default[1]
    IN  IF param.type = "path" /\ cpStorage # None
            THEN IF IsUri(chosen) THEN Quote(DownloadPath(i - 1))
                 ELSE Quote(Abspath(chosen.s))
            ELSE Quote(PyStr(chosen))

\* C10: a compute_parameters that returns gives two mappings with disjoint keys;
\* the first has exactly the declared names, each bound to the escaped (resolved)
\* user value when the user gave one, else to the escaped default; the second has
\* exactly the user's undeclared names, each bound to the user's value escaped
\* once; and the mapping the user passed is left as it was.
C10_TwoDisjointMappings ==
    cpResult.status = "ok" =>
        /\ DOMAIN cpResult.final = Names(epParams)
        /\ DOMAIN cpResult.extra = DOMAIN UserMap \ Names(epParams)
        /\ DOMAIN cpResult.final \cap DOMAIN cpResult.extra = {}
        /\ \A i \in DOMAIN epParams : cpResult.final[epParams[i].name] = ExpectedFinal(i)
        /\ \A k \in DOMAIN cpResult.extra : cpResult.extra[k] = Quote(PyStr(UserMap[k]))
        /\ cpUserAfter = cpUser

\* C10 witness: one declared value comes from the user and needs escaping, one from
\* an integer default, and an undeclared user parameter lands in the second mapping.
C10_Witness ==
    /\ cpResult.status = "ok"
    /\ Len(epParams) = 2
    /\ cpResult.final["alpha"] = <<"'", "'", "\"", "'", "\"", "'", "'">>
    /\ "beta" \notin DOMAIN UserMap
    /\ cpResult.final["beta"] = <<"5">>
    /\ DOMAIN cpResult.extra = {"extra"}
    /\ cpResult.extra["extra"] = sUri

\* ------------------------------------------------------------------ claim C7
\* The environments a Project has set: conda_env_path given, a container section
\* that is given and not empty.
EnvsSet(project) ==
    (IF project.conda_env_path # None THEN {"conda"} ELSE {})
    \cup (IF SectionTruthy(project.docker_env) THEN {"docker"} ELSE {})
    \cup (IF SectionTruthy(project.singularity_env) THEN {"singularity"} ELSE {})

\* The environments a descriptor declares.
EnvsDeclared(yaml_obj) ==
    (IF yaml_obj.conda_env # None THEN {"conda"} ELSE {})
    \cup (IF SectionTruthy(yaml_obj.docker_env) THEN {"docker"} ELSE {})
    \cup (IF SectionTruthy(yaml_obj.singularity_env) THEN {"singularity"} ELSE {})

\* C7: whatever the descriptor and the files beside it (a default conda.yaml
\* included), a load_project that returns gives a Project with at most one of
\* conda_env_path, docker_env, singularity_env set; a descriptor declaring two of
\* them fails, and one declaring exactly one valid environment loads.
C7_AtMostOneEnvironment ==
    /\ ldResult.status = "ok" => Cardinality(EnvsSet(ldResult.project)) <= 1
    /\ (ldResult.status # "idle" /\ ldPath \in {"dir", "file"}
            /\ Cardinality(EnvsDeclared(ldYaml)) >= 2) => ldResult.status = "error"
    /\ (ldResult.status # "idle" /\ ldPath \in {"dir", "file"}
            /\ Cardinality(EnvsDeclared(ldYaml)) = 1
            /\ ValidateContainer(ldYaml.docker_env) = None
            /\ ValidateContainer(ldYaml.singularity_env) = None
            /\ (ldYaml.conda_env # None => ldFiles.conda_env)) => ldResult.status = "ok"

\* ------------------------------------------------------------------ claim C5
\* The statements of run that call a lifecycle method.
LifecycleSet == {Lifecycle[i] : i \in DOMAIN Lifecycle}

\* calls is the beginning of the lifecycle.
LifecyclePrefix(calls) ==
    Len(calls) <= Len(Lifecycle) /\ calls = SubSeq(Lifecycle, 1, Len(calls))

\* The last lifecycle call raised, and run ended with that exception.
LastCallFailed ==
    /\ rnCalls # <<>>
    /\ rnError # None
    /\ rnError[1].at = rnCalls[Len(rnCalls)]

\* C5: a run that uses an execution environment (one is selected, by use_conda or by
\* a container section) has, when it ends, called validate_installation,
\* validate_environment, prepare_environment and get_command once each in that
\* order, or a beginning of that sequence whose last call failed.
C5_LifecycleOnceInOrder ==
    (rnPc = "done" /\ rnEnvName # "") =>
        /\ LifecyclePrefix(rnCalls)
        /\ (rnCalls = Lifecycle \/ LastCallFailed)

\* ------------------------------------------------------------------ claim C6
\* The statements whose exceptions are validation errors: the project's loading,
\* the environment's lifecycle, and the entry point's command.
ValidationSteps == {"load_project", "get_entry_point_command"} \cup LifecycleSet

ValidationFailed == rnError # None /\ rnError[1].at \in ValidationSteps

\* C6: in either mode, a run with a validation error has ended, has spawned no
\* process and has returned no handle; and no lifecycle call is ever made twice.
C6_ValidationBeforeSpawn ==
    /\ ValidationFailed => (rnPc = "done" /\ rnSpawned = <<>> /\ ~rnHandle)
    /\ \A i, j \in DOMAIN rnCalls : rnCalls[i] = rnCalls[j] => i = j

\* A synchronous run whose environment's lifecycle succeeded and whose entry point
\* lacks a required parameter: it ended without a process.
C6_Witness ==
    /\ rnPc = "done"
    /\ rnCfg.synchronous
    /\ rnCalls = Lifecycle
    /\ rnError = Raised("get_entry_point_command", "missing_params")
    /\ rnSpawned = <<>>

\* ------------------------------------------------------------------ claim C8
\* C8: a synchronous run whose validation all succeeded (the entry point's command
\* was assembled) ends with exactly one process, spawned in the working directory
\* with the merged environment, with a handle returned and no error raised.
C8_SynchronousRunReturnsHandle ==
    (rnPc = "done" /\ rnCfg.synchronous /\ rnCommand.status = "ok") =>
        /\ Len(rnSpawned) = 1
        /\ rnSpawned[1].cwd = "work_dir"
        /\ rnSpawned[1].env = "merged"
        /\ rnHandle
        /\ rnError = None

\* ------------------------------------------------------------------ claim C11
\* The names a command template has placeholders for.
Placeholders(command) == {command[i].ph : i \in {j \in DOMAIN command : command[j].k = "ph"}}

\* What the declared parameters of the entry point resolve to for ccUser (in a
\* storage directory without subdirectories), escaped.
Declared == ComputeParameters(geResult.ep.parameters, ccUser, ccStorage, {}).final

\* " --<name> <value>" for each of the user's keys that no parameter declares, the
\* value escaped.
ExtraSuffix ==
    LET given(k) == k \in DOMAIN ccUser[1] /\ k \notin Names(geResult.ep.parameters)
        flag(k, name) ==
            IF given(k) THEN <<" ", "-", "-">> \o name \o <<" ">> \o Quote(PyStr(ccUser[1][k]))
            ELSE <<>>
    IN  flag("alpha", <<"a", "l", "p", "h", "a">>)
            \o flag("gamma", <<"g", "a", "m", "m", "a">>)
            \o flag("extra", <<"e", "x", "t", "r", "a">>)

\* C11: a compute_command that returns gives the template with every placeholder
\* replaced by its declared parameter's escaped value, then one " --name value" per
\* extra parameter ("e {alpha} {beta}" with alpha=ab, beta defaulting to "a b" and
\* extra=' gives "e /ab 'a b' --extra ''"'"''"); a template with a placeholder that
\* no parameter declares never renders: the call fails (KeyError), also when the
\* user passes a value under that name.
C11_ComputeCommand ==
    ccResult.status # "idle" =>
        /\ (~(Placeholders(geResult.ep.command) \subseteq Names(geResult.ep.parameters)))
               => ccResult.status = "key_error"
        /\ ccResult.status = "key_error"
               => ~(Placeholders(geResult.ep.command) \subseteq Names(geResult.ep.parameters))
        /\ (ccResult.status = "ok" /\ geResult.ep.command = ParseEntryPoints(
                   [entry_points |-> [n \in {epMain} |-> MainEntryPoint]])[epMain].command)
               => ccResult.command = <<"e", " ">> \o Declared["alpha"] \o <<" ">>
                                         \o Declared["beta"] \o ExtraSuffix
        /\ (ccResult.status = "ok" /\ geName = epPy /\ epPy \notin DOMAIN geEntryPoints)
               => ccResult.command = PythonCmd \o <<" ">> \o geName \o ExtraSuffix
        /\ (ccResult.status = "ok" /\ geName = epMain /\ ccStorage # None
                /\ ccUser = Some([k \in {"alpha", "extra"} |->
                                     IF k = "alpha" THEN StrVal(sAB) ELSE StrVal(sQuote)]))
               => ccResult.command =
                      <<"e", " ", "/", "a", "b", " ", "'", "a", " ", "b", "'", " ", "-", "-",
                        "e", "x", "t", "r", "a", " ", "'", "'", "\"", "'", "\"", "'", "'">>

\* The main entry point rendered for a user mapping with an extra parameter.
C11_Witness ==
    /\ ccResult.status = "ok"
    /\ geName = epMain
    /\ "extra" \in DOMAIN ccUser[1]
    /\ Len(ccResult.command) > 0

\* ------------------------------------------------------------------ claim C12
\* The extensions get_entry_point synthesizes an entry point for.
SupportedExtensions == {<<".", "p", "y">>, <<".", "s", "h">>, <<".", "R">>}

\* get_entry_point's choice between the declared entry point, a synthesized one
\* and the error.
GetEntryPointChoice ==
    geResult.status # "idle" =>
        /\ geName \in DOMAIN geEntryPoints => geResult = Found(geEntryPoints[geName])
        /\ (geName \notin DOMAIN geEntryPoints
                /\ FileExtension(geName) \in SupportedExtensions)
               => /\ geResult.status = "ok"
                  /\ geResult.ep.name = geName
                  /\ geResult.ep.parameters = <<>>
        /\ (geName \notin DOMAIN geEntryPoints
                /\ FileExtension(geName) \notin SupportedExtensions)
               => geResult.status = "unsupported_entry_point"

\* C12: get_entry_point returns the declared entry point when the name is declared
\* (also when the name has a script extension); else a name ending in .py, .sh or
\* .R gives an entry point without parameters; else the call fails, and the error's
\* message lists the declared entry points and the supported extensions.
C12_GetEntryPoint ==
    /\ GetEntryPointChoice
    /\ geResult.status = "unsupported_entry_point"
           => /\ geResult.entry_points = DOMAIN geEntryPoints
              /\ geResult.extensions = SupportedExtensions

\* ------------------------------------------------------------------ claim C13
\* C13: load_project on an existing directory without a descriptor returns a
\* Project with no entry points and no container environment (an empty descriptor
\* is assumed); it fails with the project-not-found error exactly when the path is
\* neither an existing file nor an existing directory.
C13_DirectoryWithoutDescriptor ==
    ldResult.status # "idle" =>
        /\ ldPath = "dir_no_descriptor"
               => /\ ldResult.status = "ok"
                  /\ ldResult.project.entry_points = EmptyMap
                  /\ ldResult.project.docker_env = None
                  /\ ldResult.project.singularity_env = None
        /\ ldResult.error = Some("not_found") <=> ldPath = "missing"

\* ------------------------------------------------------------------ claim C14
\* C14: every signal cancel() sends goes to the process group when the process
\* leads its group and to the direct child otherwise, and a cancel() that found the
\* process running and met no OS error has sent one.
C14_GroupOnlyWhenLeader ==
    /\ \A i \in DOMAIN signals : signals[i] = "group" <=> isLeader
    /\ \A i \in DOMAIN signals : signals[i] = "child" <=> ~isLeader
    /\ (lastCancel = Some("killed") /\ osErrors = 0) => Len(signals) = 1

\* cancel() has killed a running child that does not lead its group.
C14_Witness ==
    /\ ~isLeader
    /\ signals = <<"child">>
    /\ lastCancel = Some("killed")
    /\ exitCode = Some(-SIGKILL)

\* ------------------------------------------------------------------ claim C15
\* C15: a cancel() that saw the process running goes from its signal step to the
\* blocking wait whether the signal was sent or the OS error was raised, and it
\* returns; once it has returned the process is reaped and get_status would not
\* report RUNNING.
C15_CancelAlwaysReaps ==
    /\ [][(pc = "cancel_signal" /\ pc' # "cancel_signal") => pc' = "cancel_wait"]_vars
    /\ [][(pc = "cancel_wait" /\ pc' # "cancel_wait") =>
             (proc' = "reaped" /\ returncode' # None /\ lastCancel' = Some("killed"))]_vars
    /\ [](lastCancel = Some("killed") =>
             (proc = "reaped" /\ StatusOf(PollCode) # "RUNNING"))
    /\ (pc = "cancel_signal") ~> (pc = "idle" /\ lastCancel = Some("killed"))

\* The process exited between cancel()'s poll and its signal, the OS error was
\* swallowed, and cancel() has returned.
C15_Witness ==
    /\ osErrors = 1
    /\ signals = <<>>
    /\ pc = "idle"
    /\ lastCancel = Some("killed")

\* ------------------------------------------------------------------ claim C16
\* C16: every process run has spawned to wrap in a handle, the entry-point command
\* of synchronous mode and the self-invocation of asynchronous mode alike, leads a
\* new session (and process group).
C16_SpawnedAsSessionLeader ==
    \A i \in DOMAIN rnSpawned : rnSpawned[i].new_session

ChosenFor(i) ==
    IF epParams[i].name \in DOMAIN UserMap
        THEN UserMap[epParams[i].name] ELSE epParams[i].default[1]

\* The declared parameters (by position, from 1) that are path-typed and given a
\* non-local reference, so that resolving them downloads into a subdirectory.
PathDownloads ==
    {i \in DOMAIN epParams :
        cpStorage # None /\ epParams[i].type = "path" /\ IsUri(ChosenFor(i))}

\* C18: a compute_parameters that returns, on a storage directory that was empty,
\* has created for each path-typed parameter given a non-local reference exactly
\* one subdirectory, param_<p> with p the parameter's 0-based position in the
\* declaration order, and nothing else: the subdirectories of two parameters
\* differ, also when both are given the same reference.
C18_OrdinalSubdirectories ==
    (cpResult.status = "ok" /\ cpResult.before = {}) =>
        /\ cpResult.dirs = {i - 1 : i \in PathDownloads}
        /\ cpResult.mkdirs = Cardinality(PathDownloads)
        /\ Cardinality(cpResult.dirs) = Cardinality(PathDownloads)
        /\ \A i \in PathDownloads :
               cpResult.final[epParams[i].name] = Quote(DownloadPath(i - 1))
        /\ \A i, j \in PathDownloads :
               i # j => cpResult.final[epParams[i].name] # cpResult.final[epParams[j].name]

\* Two path-typed parameters were given the same reference and got param_0 and
\* param_1.
C18_Witness ==
    /\ cpResult.status = "ok"
    /\ cpResult.before = {}
    /\ PathDownloads = {1, 2}
    /\ ChosenFor(1) = ChosenFor(2)
    /\ cpResult.dirs = {0, 1}

\* ------------------------------------------------------------------ claim C19
\* Nothing but the state of the storage directory can make the resolution fail:
\* no parameter is missing, every uri-typed value is a URI and every local path
\* exists.
ResolvableInputs ==
    /\ Lacking = {}
    /\ \A i \in DOMAIN epParams :
          /\ epParams[i].type = "uri" => IsUri(ChosenFor(i))
          /\ (epParams[i].type = "path" /\ cpStorage # None /\ ~IsUri(ChosenFor(i)))
                 => PyStr(ChosenFor(i)) \in ExistingLocal

\* C19: a compute_parameters repeated on the same storage directory, for the same
\* non-local reference of a path-typed parameter, succeeds again and creates a
\* subdirectory again.
C19_RepeatedResolutionSucceeds ==
    (cpResult.status # "idle" /\ ResolvableInputs /\ PathDownloads # {}
         /\ cpResult.before # {})
        => (cpResult.status = "ok" /\ cpResult.mkdirs = Cardinality(PathDownloads))

\* ------------------------------------------------------------------ claim C20
\* A list of exactly two strings.
PairOfStrings(v) ==
    v.t = "list" /\ Len(v.items) = 2 /\ \A i \in DOMAIN v.items : v.items[i].t = "str"

\* The shape the claim requires of 'environment': a list whose elements are strings
\* or pairs of two strings.
EnvironmentWellShaped(v) ==
    v.t = "list" /\ \A i \in DOMAIN v.items : v.items[i].t = "str" \/ PairOfStrings(v.items[i])

\* A section the claim says is accepted.
SectionAcceptable(section) ==
    /\ YTruthy(section.image)
    /\ section.volumes # None => IsListOfStr(section.volumes[1])
    /\ section.environment # None => EnvironmentWellShaped(section.environment[1])

\* The container sections the descriptor gives.
SectionsGiven ==
    {sec \in {ldYaml.docker_env, ldYaml.singularity_env} : SectionTruthy(sec)}

\* C20: a load_project that returns has accepted only container sections with an
\* image, volumes (if present) a list of strings and environment (if present) a list
\* of strings and two-string pairs; and a descriptor whose sections are all of that
\* shape is not rejected for a section (it loads when it declares one environment
\* whose files exist).
C20_ContainerSectionShape ==
    (ldResult.status # "idle" /\ ldPath \in {"dir", "file"}) =>
        /\ ldResult.status = "ok" => \A sec \in SectionsGiven : SectionAcceptable(sec[1])
        /\ ((\A sec \in SectionsGiven : SectionAcceptable(sec[1]))
                /\ Cardinality(EnvsDeclared(ldYaml)) <= 1
                /\ (ldYaml.conda_env # None => ldFiles.conda_env))
               => ldResult.status = "ok"

\* ------------------------------------------------------------------ claim C21
\* The log records of the call.
LogRecords == {peLog[i] : i \in DOMAIN peLog}

\* The exceptions that come from removing a build artifact.
RemovalErrors == {Some("rmtree"), Some("remove")}

\* C21: when prepare_environment has returned or raised, every build artifact it
\* created (the staging directory, the tar file) is gone from the temporary
\* directory, unless its removal failed and that was logged; and the exception it
\* raised, if any, is not one of a removal.
C21_BuildArtifactsRemoved ==
    pePc = "done" =>
        /\ \A a \in BuildArtifacts \cap peTmp : Logged("not_deleted", a) \in LogRecords
        /\ peError \notin RemovalErrors

\* ------------------------------------------------------------------ claim C22
\* C22: once load_project has returned the Project, no later step of run (the
\* environment's validate_installation, validate_environment, prepare_environment
\* and get_command, then get_entry_point, compute_parameters and compute_command)
\* changes it: its name, entry points, conda_env_path, docker_env and
\* singularity_env, the volumes and environment lists included, stay as loaded.
C22_ProjectImmutable ==
    [][rnPc \notin {"fetch", "load"} => rnProject' = rnProject]_vars

====
